---- MODULE Spec2Model ----
(***************************************************************************)
(* A model of the "endless" story server: the first-order Markov chain     *)
(* that is trained from raw text (train package), the seeded page          *)
(* generator built on it (train/page.go), the single-slot model cache in   *)
(* front of the SQLite store (main.go, store package) and the timed        *)
(* streaming renderer (streamPage in main.go).                             *)
(*                                                                         *)
(* Strings are sequences of one-character strings; a word is a non-empty   *)
(* sequence of characters; a text is a sequence of characters.             *)
(***************************************************************************)
EXTENDS Integers, Sequences, FiniteSets, TLC

VARIABLES
    \* ---- train package: one chain being trained, serialized and sampled
    chain,      \* the *gomarkov.Chain owned by the request path
    trained,    \* the texts added to chain so far, in order
    prev,       \* the chain as it was before the last AddTextToModel
    bytes,      \* the last SerializeModel output ([ok |-> FALSE] before)
    loaded,     \* the last LoadModel result
    gen,        \* the running GenerateStoryFromPrng loop
    \* ---- page generator: the wall clock and the calls made so far
    clock,      \* time.Now().Unix()
    pchain,     \* the chain handed to GeneratePage
    calls,      \* GeneratePage calls: [seed, at, page]
    homes,      \* GenerateHomePagePosts calls: [count, at, posts]
    running,    \* GeneratePage calls that have not returned: [seed, at]
    \* ---- slug derivation applied to arbitrary titles
    title,      \* the raw title
    slug1,      \* the slug steps applied once
    slug2,      \* the slug steps applied to slug1
    \* ---- model cache and store
    rows,       \* markov_chain_model table: sequence of [id, data, created]
    dbclock,    \* CURRENT_TIMESTAMP of the database (seconds)
    cachedModel,\* App.cachedModel: [ok |-> FALSE] is nil
    procs,      \* the request workers: pc and locals of each
    hist,       \* completed operations: requests, store writes, last commit
    \* ---- streamPage
    spc,        \* position of the streaming worker
    story,      \* the page being streamed
    sidx,       \* index of the unit being emitted in the current region
    lidx,       \* index of the related link being emitted
    out,        \* the calls made on the response, in order
    jit,        \* the jitter generator (prng.Float64 draws)
    sink        \* the connection to the client: open, or gone after `at' calls

chainVars  == <<chain, trained, prev, bytes, loaded, gen>>
pageVars   == <<clock, pchain, calls, homes, running>>
slugVars   == <<title, slug1, slug2>>
cacheVars  == <<rows, dbclock, cachedModel, procs, hist>>
streamVars == <<spc, story, sidx, lidx, out, jit, sink>>
vars == <<chainVars, pageVars, slugVars, cacheVars, streamVars>>

-----------------------------------------------------------------------------
(* Strings *)

Last(s) == s[Len(s)]

Range(s) == {s[i] : i \in 1..Len(s)}

\* F(v), with v worked out once
Bind(v, F(_)) == CHOOSE r \in {F(x) : x \in {v}} : TRUE

\* unicode.IsSpace on the characters of the model's alphabet
IsSpace(c) == c \in {" ", "\n"}

\* The characters that take two bytes in UTF-8 (a non-ASCII letter).
MultiByte == {"é", "É"}

\* unicode.IsLetter / unicode.IsNumber on the model's alphabet
IsLetter(c) == c \in {"a", "b", "A", "B", "é", "É"}
IsNumber(c) == c \in {"1", "2"}

\* unicode.ToLower of one character
LowerChar(c) ==
    CASE c = "A" -> "a"
      [] c = "B" -> "b"
      [] c = "É" -> "é"
      [] OTHER -> c

RECURSIVE Concat(_)
\* the concatenation of a sequence of strings
Concat(ss) == IF ss = <<>> THEN <<>> ELSE Head(ss) \o Concat(Tail(ss))

RECURSIVE Join(_, _)
\* strings.Join(ss, sep)
Join(ss, sep) ==
    IF ss = <<>> THEN <<>>
    ELSE IF Len(ss) = 1 THEN ss[1]
    ELSE ss[1] \o sep \o Join(Tail(ss), sep)

RECURSIVE FieldsFrom(_, _, _)
\* strings.Fields, scanning s from position i with the current word cur
FieldsFrom(s, i, cur) ==
    IF i > Len(s) THEN (IF cur = <<>> THEN <<>> ELSE <<cur>>)
    ELSE IF IsSpace(s[i])
         THEN (IF cur = <<>> THEN <<>> ELSE <<cur>>) \o FieldsFrom(s, i + 1, <<>>)
         ELSE FieldsFrom(s, i + 1, Append(cur, s[i]))

\* strings.Fields(s): the maximal runs of non-space characters
Fields(s) == FieldsFrom(s, 1, <<>>)

-----------------------------------------------------------------------------
(* gomarkov.Chain of order 1 *)

StartToken == <<"$">>
EndToken   == <<"^">>

\* gomarkov.NewChain(1): an empty state pool and an empty frequency matrix.
\* pool[i] is the token with pool index i-1 (spool.intMap); freq[i][j] is
\* frequencyMat[i-1][j-1], 0 standing for an absent entry.
NewChain == [pool |-> <<>>, freq |-> <<>>]

\* spool.get: the position of token t in the pool, 0 when it is not there
PoolIndex(pool, t) ==
    IF \E i \in 1..Len(pool) : pool[i] = t
    THEN CHOOSE i \in 1..Len(pool) : pool[i] = t
    ELSE 0

\* spool.add: t gets the next free index unless it has one
PoolAdd(c, t) ==
    IF PoolIndex(c.pool, t) # 0 THEN c
    ELSE [pool |-> Append(c.pool, t),
          freq |-> [i \in 1..(Len(c.pool) + 1) |->
                      [j \in 1..(Len(c.pool) + 1) |->
                          IF i <= Len(c.pool) /\ j <= Len(c.pool)
                          THEN c.freq[i][j] ELSE 0]]]

\* one pair of Chain.Add: frequencyMat[currentIndex][nextIndex]++
AddPair(c, cur, nxt) ==
    LET c1 == PoolAdd(c, cur)
        c2 == PoolAdd(c1, nxt)
        i  == PoolIndex(c2.pool, cur)
        j  == PoolIndex(c2.pool, nxt)
    IN [c2 EXCEPT !.freq[i][j] = @ + 1]

RECURSIVE AddPairs(_, _, _)
AddPairs(c, tokens, i) ==
    IF i >= Len(tokens) THEN c
    ELSE AddPairs(AddPair(c, tokens[i], tokens[i + 1]), tokens, i + 1)

\* Chain.Add(input): START, input..., END, every consecutive pair counted once
ChainAdd(c, input) == AddPairs(c, <<StartToken>> \o input \o <<EndToken>>, 1)

\* the count of (context cur, next token nxt); 0 when never observed
Count(c, cur, nxt) ==
    LET i == PoolIndex(c.pool, cur)
        j == PoolIndex(c.pool, nxt)
    IN IF i = 0 \/ j = 0 THEN 0 ELSE c.freq[i][j]

\* the (context, next token, count) triples of a chain
Triples(c) ==
    {<<c.pool[i], c.pool[j], c.freq[i][j]>> :
        <<i, j>> \in {p \in (1..Len(c.pool)) \X (1..Len(c.pool)) : c.freq[p[1]][p[2]] > 0}}

-----------------------------------------------------------------------------
(* train: BuildModel, AddTextToModel *)

terminatingPunctuation == {".", "!", "?"}

RECURSIVE AddSentences(_, _, _, _)
\* the loop of AddTextToModel over words[i..], lastIndex being the first word
\* of the sentence that is open (1-based)
AddSentences(c, words, lastIndex, i) ==
    IF i > Len(words)
    THEN IF lastIndex <= Len(words)
         THEN ChainAdd(c, SubSeq(words, lastIndex, Len(words)))
         ELSE c
    ELSE IF Last(words[i]) \in terminatingPunctuation
         THEN AddSentences(ChainAdd(c, SubSeq(words, lastIndex, i)), words, i + 1, i + 1)
         ELSE AddSentences(c, words, lastIndex, i + 1)

\* the words AddTextToModel works on
TextWords(input) == Fields(input)

RECURSIVE SplitPunctuation(_)
\* the words with a closing terminator made a token of its own
SplitPunctuation(words) ==
    IF words = <<>> THEN <<>>
    ELSE LET w == Head(words) IN
         (IF Len(w) > 1 /\ Last(w) \in terminatingPunctuation
          THEN <<SubSeq(w, 1, Len(w) - 1), <<Last(w)>>>>
          ELSE <<w>>) \o SplitPunctuation(Tail(words))

\* AddTextToModel with the punctuation split out of the words
AddTextToModelSplitPunctuation(c, input) ==
    AddSentences(c, SplitPunctuation(Fields(input)), 1, 1)

\* AddTextToModel that closes the sequence with its first word and not END
AddTextToModelCyclic(c, input) ==
    IF Fields(input) = <<>> THEN c
    ELSE AddPairs(c, <<StartToken>> \o Fields(input) \o <<Fields(input)[1]>>, 1)

\* AddTextToModel that leaves out the END of the sequence it adds
AddTextToModelOpen(c, input) ==
    IF Fields(input) = <<>> THEN c ELSE AddPairs(c, <<StartToken>> \o Fields(input), 1)

\* AddTextToModel that adds a sentence of no words for a text of no words
AddTextToModelEmptySentence(c, input) ==
    IF Fields(input) = <<>> THEN ChainAdd(c, <<>>) ELSE AddSentences(c, Fields(input), 1, 1)

\* AddTextToModel that takes the whole text as one sentence
AddTextToModelWhole(c, input) ==
    IF Fields(input) = <<>> THEN c ELSE ChainAdd(c, Fields(input))

\* AddTextToModel that counts the sentences of the text in a chain of its own
AddTextToModelFresh(c, input) == AddSentences(NewChain, Fields(input), 1, 1)

AddTextToModel(c, input) == AddSentences(c, TextWords(input), 1, 1)

BuildModel(input) == AddTextToModel(NewChain, input)

-----------------------------------------------------------------------------
(* math/rand: a seeded, stateful generator.  The generator is a small     *)
(* linear congruential one: what the program relies on is only that the   *)
(* stream is a function of the seed.                                       *)

\* rand.New(rand.NewSource(seed))
NewSource(seed) == (seed * 7 + 3) % 61

\* the state after one draw; the value drawn is the new state
PrngNext(p) == (p * 10 + 7) % 61

\* prng.Int63()
Int63(p) == [val |-> PrngNext(p), prng |-> PrngNext(p)]

\* prng.Intn(n) and prng.Int63n(n), n > 0
Intn(p, n) == [val |-> PrngNext(p) % n, prng |-> PrngNext(p)]

-----------------------------------------------------------------------------
(* gomarkov sampling *)

RECURSIVE RowSum(_, _)
\* sparseArray.sum over row[j..]
RowSum(row, j) == IF j > Len(row) THEN 0 ELSE row[j] + RowSum(row, j + 1)

RECURSIVE PickNext(_, _, _)
\* the weighted choice: the first key, in key order, at which the running
\* sum of the counts exceeds randN (0 <= randN < sum)
PickNext(row, j, randN) ==
    IF j > Len(row) THEN 0
    ELSE IF randN - row[j] < 0 THEN j
    ELSE PickNext(row, j + 1, randN - row[j])

\* SampleDeterministic([cur], prng): the next token, chosen in proportion to
\* the counts of the context; a context never observed falls back to an
\* unweighted choice over the alphabet, and with no alphabet at all the
\* call fails (err) and returns the empty token.  The generator is advanced
\* by each draw.
GenerateDeterministic(c, cur, p) ==
    LET i == PoolIndex(c.pool, cur) IN
    IF i # 0 /\ RowSum(c.freq[i], 1) > 0
    THEN LET r == Intn(p, RowSum(c.freq[i], 1))
         IN [next |-> c.pool[PickNext(c.freq[i], 1, r.val)], err |-> FALSE, prng |-> r.prng]
    ELSE IF c.pool = <<>>
    THEN [next |-> <<>>, err |-> TRUE, prng |-> p]
    ELSE LET r == Intn(p, Len(c.pool))
         IN [next |-> c.pool[r.val + 1], err |-> FALSE, prng |-> r.prng]

\* the largest number of tokens a generation loop is followed for
MaxTokens == 6

\* one iteration of the loop of GenerateStoryFromPrng: the error of
\* GenerateDeterministic is dropped, the token is appended
StoryStep(c, tokens, p) ==
    LET r == GenerateDeterministic(c, Last(tokens), p)
    IN [tokens |-> Append(tokens, r.next), prng |-> r.prng]

RECURSIVE StoryLoop(_, _, _, _)
\* the loop of GenerateStoryFromPrng, followed for at most fuel iterations:
\* done is FALSE when the loop is still running after them
StoryLoop(c, tokens, p, fuel) ==
    IF Last(tokens) = EndToken
    THEN [done |-> TRUE, tokens |-> tokens, prng |-> p]
    ELSE IF fuel = 0
    THEN [done |-> FALSE, tokens |-> tokens, prng |-> p]
    ELSE Bind(StoryStep(c, tokens, p),
              LAMBDA r : StoryLoop(c, r.tokens, r.prng, fuel - 1))

\* strings.Join(tokens[1:len(tokens)-1], " ")
StoryText(tokens) == Join(SubSeq(tokens, 2, Len(tokens) - 1), <<" ">>)

\* GenerateStoryFromPrng(prng, chain): the sentence and the generator after it
GenerateStoryFromPrng(p, c) ==
    Bind(StoryLoop(c, <<StartToken>>, p, MaxTokens),
         LAMBDA r : [done |-> r.done, text |-> StoryText(r.tokens),
                     tokens |-> r.tokens, prng |-> r.prng])

-----------------------------------------------------------------------------
(* train: SerializeModel, LoadModel (encoding/json of gomarkov's chainJSON) *)

Digit(d) == <<"0", "1", "2", "3", "4", "5", "6", "7", "8", "9">>[d + 1]

DigitValue(ch) == CHOOSE d \in 0..9 : Digit(d) = ch

RECURSIVE Itoa(_)
\* the decimal text of n >= 0, as encoding/json writes an int map key
Itoa(n) == IF n < 10 THEN <<Digit(n)>> ELSE Append(Itoa(n \div 10), Digit(n % 10))

RECURSIVE Atoi(_)
\* the number a decimal text stands for
Atoi(str) ==
    IF Len(str) = 1 THEN DigitValue(str[1])
    ELSE 10 * Atoi(SubSeq(str, 1, Len(str) - 1)) + DigitValue(Last(str))

\* json.Marshal(chain): {"int": order, "spool_map": {token: index},
\* "freq_mat": {"index": {"index": count}}}; absent entries are not written
SerializeModel(c) ==
    [ok |-> TRUE,
     order |-> 1,
     spool_map |-> {<<c.pool[i], i - 1>> : i \in 1..Len(c.pool)},
     freq_mat |-> {<<Itoa(i - 1),
                     {<<Itoa(j - 1), c.freq[i][j]>> :
                         j \in {k \in 1..Len(c.pool) : c.freq[i][k] > 0}}>> :
                     i \in {k \in 1..Len(c.pool) : RowSum(c.freq[k], 1) > 0}}]

\* the count stored in freq_mat for row key r and column key k, 0 if absent
JsonCount(data, r, k) ==
    IF \E row \in data.freq_mat : row[1] = r /\ \E e \in row[2] : e[1] = k
    THEN LET row == CHOOSE x \in data.freq_mat : x[1] = r
         IN (CHOOSE e \in row[2] : e[1] = k)[2]
    ELSE 0

\* LoadModel that reads every stored transition back with the count 1
LoadModelUnitCounts(data) ==
    LET n == Cardinality(data.spool_map) IN
    [pool |-> [i \in 1..n |-> (CHOOSE e \in data.spool_map : e[2] = i - 1)[1]],
     freq |-> [i \in 1..n |-> [j \in 1..n |->
                 IF JsonCount(data, Itoa(i - 1), Itoa(j - 1)) > 0 THEN 1 ELSE 0]]]

\* json.Unmarshal(data, &chain): spool_map is taken as it is, intMap is its
\* inverse, freq_mat is read back with its keys parsed as ints
LoadModel(data) ==
    LET n == Cardinality(data.spool_map) IN
    [pool |-> [i \in 1..n |-> (CHOOSE e \in data.spool_map : e[2] = i - 1)[1]],
     freq |-> [i \in 1..n |-> [j \in 1..n |-> JsonCount(data, Itoa(i - 1), Itoa(j - 1))]]]

-----------------------------------------------------------------------------
(* train/page.go: the slug steps of createLinkFromSeed *)

\* the cap on the bytes of the title that the slug is made from
SlugSourceMax == 64

\* len(c) in bytes of one character
ByteLen(c) == IF c \in MultiByte THEN 2 ELSE 1

RECURSIVE ByteLength(_)
\* len(s): the length of a string in bytes
ByteLength(s) == IF s = <<>> THEN 0 ELSE ByteLen(Head(s)) + ByteLength(Tail(s))

RECURSIVE TruncateBytes(_, _)
\* s[:n] for n <= len(s): a two-byte character cut in the middle leaves its
\* lead byte, which is not valid UTF-8 on its own
TruncateBytes(s, n) ==
    IF n = 0 \/ s = <<>> THEN <<>>
    ELSE IF ByteLen(Head(s)) <= n
         THEN <<Head(s)>> \o TruncateBytes(Tail(s), n - ByteLen(Head(s)))
         ELSE <<"xC3">>

Min(a, b) == IF a <= b THEN a ELSE b

RECURSIVE TrimLeft(_, _)
\* s without its leading characters that are in cut
TrimLeft(s, cut) ==
    IF s # <<>> /\ Head(s) \in cut THEN TrimLeft(Tail(s), cut) ELSE s

RECURSIVE TrimRight(_, _)
TrimRight(s, cut) ==
    IF s # <<>> /\ Last(s) \in cut THEN TrimRight(SubSeq(s, 1, Len(s) - 1), cut) ELSE s

\* strings.TrimSpace
TrimSpace(s) == TrimRight(TrimLeft(s, {" ", "\n"}), {" ", "\n"})

\* strings.Trim(s, "-")
TrimHyphens(s) == TrimRight(TrimLeft(s, {"-"}), {"-"})

\* strings.ToLower: an invalid byte comes out as the replacement character
ToLower(s) == [i \in 1..Len(s) |-> IF s[i] = "xC3" THEN "uFFFD" ELSE LowerChar(s[i])]

\* strings.ReplaceAll(s, from, to) for a one-character from
ReplaceChar(s, from, to) == [i \in 1..Len(s) |-> IF s[i] = from THEN to ELSE s[i]]

\* strings.Map keeping letters, numbers and '-'
StripNonAlnum(s) == SelectSeq(s, LAMBDA ch : IsLetter(ch) \/ IsNumber(ch) \/ ch = "-")

RECURSIVE CollapseOnce(_)
\* strings.ReplaceAll(s, "--", "-"): one pass from the left over the
\* non-overlapping occurrences of "--"
CollapseOnce(s) ==
    IF Len(s) < 2 THEN s
    ELSE IF s[1] = "-" /\ s[2] = "-"
         THEN <<"-">> \o CollapseOnce(SubSeq(s, 3, Len(s)))
         ELSE <<s[1]>> \o CollapseOnce(Tail(s))

RECURSIVE CollapseAll(_)
\* every run of hyphens replaced by one hyphen
CollapseAll(s) ==
    IF Len(s) < 2 THEN s
    ELSE IF s[1] = "-" /\ s[2] = "-" THEN CollapseAll(Tail(s))
    ELSE <<s[1]>> \o CollapseAll(Tail(s))

\* strings.ReplaceAll(link, "--", "-") as createLinkFromSeed calls it
RemoveDuplicateDashes(s) == CollapseOnce(s)

\* the slug of a title: lines 219-234 of createLinkFromSeed
Slugify(t) ==
    LET numChars == Min(SlugSourceMax, ByteLength(t))
        l1 == TrimSpace(TruncateBytes(t, numChars))
        l2 == ToLower(l1)
        l3 == ReplaceChar(l2, " ", "-")
        l4 == ReplaceChar(l3, "\n", "-")
        l5 == StripNonAlnum(l4)
        l6 == RemoveDuplicateDashes(l5)
    IN TrimHyphens(l6)

\* strconv's decimal text of an int64 (fmt %d)
FormatInt(n) == IF n < 0 THEN <<"-">> \o Itoa(0 - n) ELSE Itoa(n)

\* fmt.Sprintf("/post/%d-%s", seed, link)
PostUrl(seed, link) == <<"/", "p", "o", "s", "t", "/">> \o FormatInt(seed) \o <<"-">> \o link

\* createLinkFromSeed(seed, prng, chain)
createLinkFromSeed(seed, p, c) ==
    Bind(GenerateStoryFromPrng(p, c),
         LAMBDA g : [done |-> g.done,
                     link |-> [Url |-> PostUrl(seed, Slugify(g.text)),
                               Title |-> g.text, Seed |-> seed],
                     prng |-> g.prng])

\* a link whose title is drawn from the generator of the page
createNewLinkShared(p, c) ==
    Bind(createLinkFromSeed(Int63(p).val, Int63(p).prng, c),
         LAMBDA l : [done |-> l.done, link |-> l.link, prng |-> l.prng])

\* createNewLink(prngOld, chain): the seed is drawn from the page's generator
\* and the link's title from a generator of its own
createNewLink(p, c) ==
    Bind(createLinkFromSeed(Int63(p).val, NewSource(Int63(p).val), c),
         LAMBDA l : [done |-> l.done, link |-> l.link, prng |-> Int63(p).prng])

RECURSIVE ParagraphLoop(_, _, _, _, _)
\* the loop of createParagraph: sentences i..sentenceCount-1 appended to acc
ParagraphLoop(p, c, i, sentenceCount, acc) ==
    IF i >= sentenceCount THEN [done |-> TRUE, text |-> acc, prng |-> p]
    ELSE Bind(GenerateStoryFromPrng(p, c),
              LAMBDA g :
                  IF ~g.done THEN [done |-> FALSE, text |-> acc, prng |-> g.prng]
                  ELSE ParagraphLoop(g.prng, c, i + 1, sentenceCount,
                           IF i > 0 THEN acc \o <<" ">> \o g.text ELSE acc \o g.text))

\* createParagraph(prng, chain)
createParagraph(p, c) ==
    LET n == Intn(p, 10) IN ParagraphLoop(n.prng, c, 0, n.val + 1, <<>>)

RECURSIVE LinksLoop(_, _, _, _, _)
\* the loop of createLinks
LinksLoop(p, c, i, linkCount, acc) ==
    IF i >= linkCount THEN [done |-> TRUE, links |-> acc, prng |-> p]
    ELSE Bind(createNewLink(p, c),
              LAMBDA l :
                  IF ~l.done THEN [done |-> FALSE, links |-> acc, prng |-> l.prng]
                  ELSE LinksLoop(l.prng, c, i + 1, linkCount, Append(acc, l.link)))

\* createLinks(prng, chain)
createLinks(p, c) ==
    LET n == Intn(p, 3) IN LinksLoop(n.prng, c, 0, n.val + 1, <<>>)

SecondsPerDay == 86400

\* the days between now.AddDate(-2, 0, 0) and now, for a day number counted
\* from 1970-01-01 (years 1970..2099): 731 when a 29 February lies between
DaysOfLastTwoYears(day) ==
    LET inCycle == day % 1461
    IN IF inCycle >= 790 \/ inCycle <= 58 THEN 731 ELSE 730

\* generateRandomDate(prng), the clock reading now: a Unix time
generateRandomDate(p, now) ==
    LET secondsRange  == DaysOfLastTwoYears(now \div SecondsPerDay) * SecondsPerDay
        twoYearsAgo   == now - secondsRange
        randomSeconds == Intn(p, secondsRange)
    IN [date |-> twoYearsAgo + randomSeconds.val, prng |-> randomSeconds.prng]

authors == <<"Arlo Mills", "Joe Goetz", "Billy Goetz", "Marybeth Trott",
             "Charlie Davis", "Diana White", "Ethan Young">>

\* GeneratePage(seed, chain) called when the clock reads now.  done is FALSE
\* when one of its generation loops is still running after MaxTokens tokens.
GeneratePage(seed, c, now) ==
    Bind(createLinkFromSeed(seed, NewSource(seed), c), LAMBDA thisLink :
    Bind(createParagraph(thisLink.prng, c), LAMBDA content :
    Bind(createLinks(content.prng, c), LAMBDA links :
    Bind(generateRandomDate(links.prng, now), LAMBDA updated :
        [done |-> thisLink.done /\ content.done /\ links.done,
         Link |-> thisLink.link,
         Content |-> content.text,
         Links |-> links.links,
         LastUpdated |-> updated.date,
         Author |-> authors[Intn(updated.prng, Len(authors)).val + 1]]))))

RECURSIVE HomePostsNextSeed(_, _, _, _, _)
\* the posts of the seeds baseSeed, baseSeed + 1, ...
HomePostsNextSeed(c, baseSeed, i, count, now) ==
    IF i >= count THEN <<>>
    ELSE <<GeneratePage(baseSeed + i, c, now)>>
             \o HomePostsNextSeed(c, baseSeed, i + 1, count, now)

RECURSIVE HomePosts(_, _, _, _, _)
\* the loop of GenerateHomePagePosts
HomePosts(c, baseSeed, i, count, now) ==
    IF i >= count THEN <<>>
    ELSE <<GeneratePage(baseSeed + i * 1000, c, now)>> \o HomePosts(c, baseSeed, i + 1, count, now)

\* GenerateHomePagePosts(chain, count) called when the clock reads now
GenerateHomePagePosts(c, count, now) == HomePosts(c, now \div SecondsPerDay, 0, count, now)

-----------------------------------------------------------------------------
(* Input domains *)

\* the longest training text, in words
MaxWords == 3

\* the words training texts are made of
Vocabulary == {<<"a">>, <<"a", ".">>, <<"b", "!">>}

RECURSIVE WordSeqs(_)
\* the sequences of 1..n words of the vocabulary
WordSeqs(n) ==
    IF n = 0 THEN {<<>>}
    ELSE LET shorter == WordSeqs(n - 1)
         IN shorter \cup {Append(ws, w) : ws \in shorter, w \in Vocabulary}

\* texts with a word that is spelled as a sentinel token is: "$ a." and
\* "a ^ b!"
SentinelTexts == {<<"$", " ", "a", ".">>, <<"a", " ", "^", " ", "b", "!">>}

\* the training texts: words separated by single spaces, the empty text, a
\* text of white space only, texts with repeated and leading white space, and
\* the texts with sentinel words
Texts ==
    {Join(ws, <<" ">>) : ws \in WordSeqs(MaxWords)}
        \cup {<<" ">>, <<" ", "a", " ", " ", "b", "!", "\n">>}
        \cup SentinelTexts

\* the texts of an update request: two texts of two words, the empty text
\* and a text of white space only
UpdateTexts == {<<"a", " ", "b", "!">>, <<"b", "!", " ", "a">>, <<>>, <<" ", "\n">>}

\* the most texts one chain is trained from: the first and the updates
MaxTrained == 2

\* the seeds generation is started with
Seeds == {1, 2, 3}

NoBytes  == [ok |-> FALSE, data |-> <<>>, from |-> NewChain]
NoLoaded == [ok |-> FALSE, chain |-> NewChain, from |-> NewChain]
NoGen    == [active |-> FALSE, tokens |-> <<>>, prng |-> 0, of |-> <<>>, text |-> <<>>]

ChainIdle ==
    /\ chain = NewChain /\ trained = <<>> /\ prev = NewChain
    /\ bytes = NoBytes /\ loaded = NoLoaded /\ gen = NoGen

PageIdle == clock = 0 /\ pchain = NewChain /\ calls = {} /\ homes = {} /\ running = {}

NoSlug == [done |-> FALSE, link |-> <<>>]

SlugIdle == title = <<>> /\ slug1 = NoSlug /\ slug2 = NoSlug

\* a nil *store.MarkovChainModel
NoModel == [ok |-> FALSE, id |-> 0, data |-> <<>>, created |-> 0]

CacheIdle ==
    /\ rows = <<>> /\ dbclock = 0 /\ cachedModel = NoModel
    /\ procs = <<>> /\ hist = <<>>

\* the connection of a request whose client is there
SinkOpen == [open |-> TRUE, at |-> 0]

StreamIdle ==
    /\ spc = "idle" /\ story = <<>> /\ sidx = 0 /\ lidx = 0 /\ out = <<>> /\ jit = 0
    /\ sink = SinkOpen

-----------------------------------------------------------------------------
(* The train package as a state machine: one chain is built, extended,     *)
(* serialized, loaded back and sampled.                                    *)

\* the variables of the other state machines stay as they are
ChainFrame == UNCHANGED <<pageVars, slugVars, cacheVars, streamVars>>

\* BuildModel(t) on a training request
TrainBuild(t) ==
    /\ trained = <<>> /\ ~gen.active
    /\ chain' = BuildModel(t)
    /\ prev' = NewChain
    /\ trained' = <<t>>
    /\ UNCHANGED <<bytes, loaded, gen>>
    /\ ChainFrame

\* AddTextToModel(chain, t) on an update request
TrainAdd(t) ==
    /\ Len(trained) = 1 /\ ~gen.active
    /\ chain' = AddTextToModel(chain, t)
    /\ prev' = chain
    /\ trained' = Append(trained, t)
    /\ UNCHANGED <<bytes, loaded, gen>>
    /\ ChainFrame

\* updateMarkovModelHandler on the stored bytes of the chain: LoadModel,
\* AddTextToModel on the loaded chain, SerializeModel of the result
UpdateLoaded(t) ==
    /\ bytes.ok /\ bytes.from = chain /\ ~gen.active
    /\ Len(trained) < MaxTrained
    /\ loaded' = [ok |-> TRUE, chain |-> LoadModel(bytes.data), from |-> bytes.from]
    /\ chain' = AddTextToModel(LoadModel(bytes.data), t)
    /\ prev' = chain
    /\ trained' = Append(trained, t)
    /\ bytes' = [ok |-> TRUE, data |-> SerializeModel(chain'), from |-> chain']
    /\ UNCHANGED gen
    /\ ChainFrame

\* SerializeModel(chain)
DoSerialize ==
    /\ trained # <<>>
    /\ bytes' = [ok |-> TRUE, data |-> SerializeModel(chain), from |-> chain]
    /\ UNCHANGED <<chain, trained, prev, loaded, gen>>
    /\ ChainFrame

\* LoadModel(bytes)
DoLoad ==
    /\ bytes.ok
    /\ loaded' = [ok |-> TRUE, chain |-> LoadModel(bytes.data), from |-> bytes.from]
    /\ UNCHANGED <<chain, trained, prev, bytes, gen>>
    /\ ChainFrame

\* GenerateStoryFromPrng(rand.New(rand.NewSource(seed)), chain) is entered
GenStart(seed) ==
    /\ ~gen.active
    /\ gen' = [active |-> TRUE, tokens |-> <<StartToken>>, prng |-> NewSource(seed),
               of |-> trained, text |-> <<>>]
    /\ UNCHANGED <<chain, trained, prev, bytes, loaded>>
    /\ ChainFrame

\* one iteration of its loop
GenStep ==
    /\ gen.active /\ Last(gen.tokens) # EndToken
    /\ Len(gen.tokens) <= MaxTokens
    /\ gen' = [gen EXCEPT !.tokens = StoryStep(chain, gen.tokens, gen.prng).tokens,
                          !.prng = StoryStep(chain, gen.tokens, gen.prng).prng]
    /\ UNCHANGED <<chain, trained, prev, bytes, loaded>>
    /\ ChainFrame

\* the loop ends at END and the joined sentence is returned
GenReturn ==
    /\ gen.active /\ Last(gen.tokens) = EndToken
    /\ gen' = [gen EXCEPT !.active = FALSE, !.text = StoryText(gen.tokens)]
    /\ UNCHANGED <<chain, trained, prev, bytes, loaded>>
    /\ ChainFrame

ChainInit == ChainIdle /\ PageIdle /\ SlugIdle /\ CacheIdle /\ StreamIdle

ChainNext ==
    \/ \E t \in Texts : TrainBuild(t)
    \/ \E t \in UpdateTexts : TrainAdd(t)
    \/ \E t \in UpdateTexts : UpdateLoaded(t)
    \/ DoSerialize
    \/ DoLoad
    \/ \E seed \in Seeds : GenStart(seed)
    \/ GenStep
    \/ GenReturn

SpecChain == ChainInit /\ [][ChainNext]_vars

\* the words of a list of training texts
TrainedWords(texts) == UNION {Range(Fields(texts[i])) : i \in 1..Len(texts)}

\* a text that has words and whose last word closes a sentence
SentenceTerminated(t) ==
    /\ Fields(t) # <<>>
    /\ Last(Last(Fields(t))) \in terminatingPunctuation

\* C5: a chain that went through SerializeModel and LoadModel has the same
\* (context, successor, count) triples as the chain that was serialized, and
\* generates the same sentence from every seed.
C5_RoundTrip ==
    loaded.ok =>
        /\ Triples(loaded.chain) = Triples(loaded.from)
        /\ \A seed \in Seeds :
              GenerateStoryFromPrng(NewSource(seed), loaded.chain)
                  = GenerateStoryFromPrng(NewSource(seed), loaded.from)

\* a built chain with a transition seen twice has been serialized and loaded
C5_Witness ==
    /\ loaded.ok
    /\ Len(trained) = 1
    /\ loaded.from = chain
    /\ \E tr \in Triples(loaded.chain) : tr[3] >= 2
    /\ Cardinality(Triples(loaded.chain)) >= 4

\* C6: when every training text is sentence-terminated, every token the
\* generation loop appended is END or one of the words of the training texts;
\* in particular none is the empty token.
C6_TokensFromText ==
    (gen.of # <<>> /\ \A i \in 1..Len(gen.of) : SentenceTerminated(gen.of[i])) =>
        \A k \in 2..Len(gen.tokens) :
            \/ gen.tokens[k] = EndToken
            \/ gen.tokens[k] \in TrainedWords(gen.of)

\* a sentence of two words has been generated from a sentence-terminated text
C6_Witness ==
    /\ gen.of # <<>> /\ \A i \in 1..Len(gen.of) : SentenceTerminated(gen.of[i])
    /\ ~gen.active
    /\ Len(gen.tokens) >= 4
    /\ Last(gen.tokens) = EndToken

\* the tokens of a chain
Tokens(c) == Range(c.pool)

\* d has every token of c, and every pair at least as often as c has it
Additive(c, d) ==
    /\ Tokens(c) \subseteq Tokens(d)
    /\ \A cur \in Tokens(c) : \A nxt \in Tokens(c) : Count(d, cur, nxt) >= Count(c, cur, nxt)

\* C22: AddTextToModel is strictly additive: after BuildModel, after
\* AddTextToModel and after an update that loads the serialized chain, adds
\* to it and serializes it again, every context and every pair that the chain
\* had before the call (prev) is still there with a count that is not lower;
\* LoadModel itself loses nothing of the chain that was serialized.
C22_StrictlyAdditive ==
    /\ Additive(prev, chain)
    /\ loaded.ok => Additive(loaded.from, loaded.chain)

\* a chain has been built, serialized and updated from the loaded bytes, the
\* update counting once more a pair that was there and counting a pair that
\* was not
C22_Witness ==
    /\ Len(trained) = 2
    /\ loaded.ok /\ loaded.from = prev /\ bytes.from = chain
    /\ \E cur \in Tokens(prev) : \E nxt \in Tokens(prev) :
          Count(prev, cur, nxt) >= 1 /\ Count(chain, cur, nxt) > Count(prev, cur, nxt)
    /\ \E cur \in Tokens(chain) : \E nxt \in Tokens(chain) :
          Count(prev, cur, nxt) = 0 /\ Count(chain, cur, nxt) >= 1

\* a word that ends a sentence: its last character is '.', '!' or '?'
Terminated(word) == Last(word) \in terminatingPunctuation

RECURSIVE SentencesOf(_)
\* the sentences of a sequence of words: each ends at the first terminated
\* word, the words after the last terminated word make one last sentence
SentencesOf(words) ==
    IF words = <<>> THEN <<>>
    ELSE IF \E k \in 1..Len(words) : Terminated(words[k])
    THEN LET k == CHOOSE n \in 1..Len(words) :
                     Terminated(words[n]) /\ \A m \in 1..(n - 1) : ~Terminated(words[m])
         IN <<SubSeq(words, 1, k)>> \o SentencesOf(SubSeq(words, k + 1, Len(words)))
    ELSE <<words>>

\* how often cur is followed by nxt in START, w1..wn, END over the sentences
PairOccurrences(sentences, cur, nxt) ==
    Cardinality({p \in UNION {{<<n, i>> : i \in 1..(Len(sentences[n]) + 1)} :
                                  n \in 1..Len(sentences)} :
        LET toks == <<StartToken>> \o sentences[p[1]] \o <<EndToken>>
        IN toks[p[2]] = cur /\ toks[p[2] + 1] = nxt})

\* C23: AddTextToModel counts the sentences of the text and nothing else: with
\* the words of the added text split into sentences at every terminated word
\* (the words left over making one last sentence), every pair of tokens has
\* gained exactly the number of times it occurs as two consecutive tokens of
\* START, w1..wn, END over the sentences, and the tokens of the chain are
\* those it had and those of the sentences.
C23_SentencePairs ==
    trained # <<>> =>
        LET sentences == SentencesOf(Fields(Last(trained)))
            words == Range(Fields(Last(trained)))
            all == Tokens(chain) \cup words \cup {StartToken, EndToken}
        IN /\ Concat(sentences) = Fields(Last(trained))
           /\ \A n \in 1..Len(sentences) :
                 /\ sentences[n] # <<>>
                 /\ \A i \in 1..(Len(sentences[n]) - 1) : ~Terminated(sentences[n][i])
                 /\ n < Len(sentences) => Terminated(Last(sentences[n]))
           /\ \A cur \in all : \A nxt \in all :
                 Count(chain, cur, nxt)
                     = Count(prev, cur, nxt) + PairOccurrences(sentences, cur, nxt)
           /\ Tokens(chain) = Tokens(prev) \cup words
                 \cup (IF words = {} THEN {} ELSE {StartToken, EndToken})

\* a text of two sentences, the second one not terminated, has been added to
\* a chain that had counts, a pair of it being counted for the second time
C23_Witness ==
    /\ Len(trained) >= 2
    /\ Tokens(prev) # {}
    /\ LET sentences == SentencesOf(Fields(Last(trained)))
       IN /\ Len(sentences) = 2
          /\ ~Terminated(Last(sentences[2]))
          /\ \E cur \in Tokens(prev) : \E nxt \in Tokens(prev) :
                Count(prev, cur, nxt) >= 1 /\ PairOccurrences(sentences, cur, nxt) >= 1

\* the tokens that have been seen after the context cur
Successors(c, cur) == {t \in Tokens(c) : Count(c, cur, t) > 0}

RECURSIVE ReachFrom(_, _)
\* the contexts generation can come to from the contexts in seen: END is
\* never a context, the loop stopping at it
ReachFrom(c, seen) ==
    LET more == seen \cup (UNION {Successors(c, cur) : cur \in seen} \ {EndToken})
    IN IF more = seen THEN seen ELSE ReachFrom(c, more)

\* the contexts generation can come to from START
Reach(c) == ReachFrom(c, {StartToken})

\* C25: in a chain trained from text with at least one word, every context
\* that generation can come to from START has a successor with a positive
\* count; the same holds of the chain read back by LoadModel.
C25_ReachableHasSuccessor ==
    /\ Tokens(chain) # {} => \A cur \in Reach(chain) : Successors(chain, cur) # {}
    /\ (loaded.ok /\ Tokens(loaded.chain) # {}) =>
          \A cur \in Reach(loaded.chain) : Successors(loaded.chain, cur) # {}

\* a chain trained from two texts in which generation can come to START and
\* to three words, one of them with two successors
C25_Witness ==
    /\ Len(trained) >= 2
    /\ Cardinality(Reach(chain)) >= 4
    /\ \E cur \in Reach(chain) \ {StartToken} : Cardinality(Successors(chain, cur)) >= 2

\* GenerateStoryFromPrng has returned
StoryReturned == ~gen.active /\ gen.tokens # <<>> /\ Last(gen.tokens) = EndToken

\* the tokens between the first and the last of the generated sequence
StoryTokens == SubSeq(gen.tokens, 2, Len(gen.tokens) - 1)

\* C26: the sequence GenerateStoryFromPrng has built is START, t1..tn, END
\* with END nowhere before the last place, every adjacent pair of it is a
\* transition with a positive count in the chain, and the string returned is
\* t1..tn joined by single spaces, none of t1..tn being START or END.
C26_StoryFromStartToEnd ==
    StoryReturned =>
        /\ gen.tokens[1] = StartToken
        /\ \A k \in 1..(Len(gen.tokens) - 1) :
              /\ gen.tokens[k] # EndToken
              /\ Count(chain, gen.tokens[k], gen.tokens[k + 1]) > 0
        /\ Fields(gen.text) = StoryTokens
        /\ Len(gen.text) = Len(Concat(StoryTokens)) + (IF StoryTokens = <<>> THEN 0
                                                       ELSE Len(StoryTokens) - 1)
        /\ \A k \in 1..Len(StoryTokens) : StoryTokens[k] \notin {StartToken, EndToken}

\* C24: a text with no word in it, the empty text or white space only, leaves
\* the chain as it was: the same tokens at the same places and the same
\* counts.
C24_EmptyTextNoOp ==
    (trained # <<>> /\ Fields(Last(trained)) = <<>>) => chain = prev

\* a text of white space only has been added to a chain that had counts
C24_Witness ==
    /\ Len(trained) >= 2
    /\ Last(trained) # <<>> /\ Fields(Last(trained)) = <<>>
    /\ Tokens(prev) # {}
    /\ chain = prev

-----------------------------------------------------------------------------
(* The generation loop under fair sampling: the draw of prng.Intn is any   *)
(* state of the generator, and the sequence is kept to its last token, the *)
(* only part of it that the loop reads.                                    *)

\* states of the generator, one for every draw up to 2 * MaxWords: the sums
\* of counts that a draw is reduced by are not greater
PrngStates == {p \in 0..60 : PrngNext(p) <= 2 * MaxWords}

\* the tokens GenerateDeterministic can return in the context cur
NextTokens(c, cur) == {GenerateDeterministic(c, cur, p).next : p \in PrngStates}

\* the tokens the running loop can draw next
Draws == IF gen.active THEN NextTokens(chain, Last(gen.tokens)) ELSE {}

\* one iteration of the loop of GenerateStoryFromPrng, in which the token t
\* of Draws is drawn
FairStep(t) ==
    /\ gen.active /\ Last(gen.tokens) # EndToken
    /\ gen' = [gen EXCEPT !.tokens = <<t>>]
    /\ UNCHANGED <<chain, trained, prev, bytes, loaded>>
    /\ ChainFrame

FairNext ==
    \/ \E t \in Texts : TrainBuild(t)
    \/ \E t \in UpdateTexts : TrainAdd(t)
    \/ GenStart(1)
    \/ \E t \in Draws : FairStep(t)
    \/ GenReturn

RECURSIVE StepsToEnd(_, _, _)
\* the length of the shortest path of positive counts from a token of the
\* set at to END, n steps having been made; more than the tokens of the chain
\* when there is none
StepsToEnd(c, at, n) ==
    IF EndToken \in at \/ n > Len(c.pool) THEN n
    ELSE StepsToEnd(c, UNION {Successors(c, x) : x \in at}, n + 1)

\* an iteration that draws a token from which END is nearer than it is from
\* the context
StepNearer ==
    \E t \in Draws :
        /\ FairStep(t)
        /\ StepsToEnd(chain, {t}, 0) < StepsToEnd(chain, {Last(gen.tokens)}, 0)

\* sampling is fair: a transition out of a context that is come to again and
\* again is taken.  Of this only the fairness toward the transitions that
\* lead nearer to END is assumed.
SpecChainFair ==
    /\ ChainInit /\ [][FairNext]_vars
    /\ SF_vars(StepNearer)

\* END can be come to from the context cur along positive counts
CanEnd(c, cur) == \E x \in ReachFrom(c, {cur}) : EndToken \in Successors(c, x)

\* C28: in a chain trained from text with at least one word, from every
\* context that generation can come to from START there is a path of
\* positive-count transitions to END, and under fair sampling a generation
\* loop that has been entered comes to END.
C28_GenerationTerminates ==
    /\ [](Tokens(chain) # {} => \A cur \in Reach(chain) : CanEnd(chain, cur))
    /\ (gen.active /\ Tokens(chain) # {}) ~> (gen.active /\ Last(gen.tokens) = EndToken)

\* generation has come to END in a chain in which a context can be come to
\* again from itself
C28_Witness ==
    /\ gen.active /\ Last(gen.tokens) = EndToken
    /\ \E cur \in Reach(chain) \ {StartToken} :
          \E nxt \in Successors(chain, cur) \ {EndToken} : cur \in ReachFrom(chain, {nxt})

-----------------------------------------------------------------------------
(* The slug steps of createLinkFromSeed applied to a title, and applied    *)
(* again to their own result.                                              *)

\* the longest title that is tried, in characters, short of the padding
MaxTitle == 5

TitleAlphabet == {"a", "-", " ", "É"}

\* the titles of at most MaxTitle characters
ShortTitles == UNION {[1..n -> TitleAlphabet] : n \in 0..MaxTitle}

\* a run of letters that ends two bytes short of the cap
Padding == [i \in 1..(SlugSourceMax - 2) |-> "a"]

\* the short titles, and titles that reach over the cap
Titles == ShortTitles \cup {Padding \o t : t \in ShortTitles}

SlugFrame == UNCHANGED <<chainVars, pageVars, cacheVars, streamVars>>

\* the slug steps applied to the title
SlugOnce ==
    /\ ~slug1.done
    /\ slug1' = [done |-> TRUE, link |-> Slugify(title)]
    /\ UNCHANGED <<title, slug2>>
    /\ SlugFrame

\* the slug steps applied to the slug
SlugTwice ==
    /\ slug1.done /\ ~slug2.done
    /\ slug2' = [done |-> TRUE, link |-> Slugify(slug1.link)]
    /\ UNCHANGED <<title, slug1>>
    /\ SlugFrame

SlugInit ==
    /\ title \in Titles /\ slug1 = NoSlug /\ slug2 = NoSlug
    /\ ChainIdle /\ PageIdle /\ CacheIdle /\ StreamIdle

SlugNext == SlugOnce \/ SlugTwice

SpecSlug == SlugInit /\ [][SlugNext]_vars

\* the characters a slug may be made of
SlugAlphabet == {"a", "b", "1", "2", "-"}

\* no two hyphens in a row, no hyphen at either end, only [a-z0-9-]
WellFormedSlug(s) ==
    /\ \A i \in 1..Len(s) : s[i] \in SlugAlphabet
    /\ \A i \in 1..(Len(s) - 1) : ~(s[i] = "-" /\ s[i + 1] = "-")
    /\ s # <<>> => (s[1] # "-" /\ Last(s) # "-")

\* C8: the slug steps leave a string that is already a slug (well formed and
\* within the cap) as it is, and applied twice to a title they give what they
\* give applied once.
C8_SlugIdempotent ==
    /\ (slug1.done /\ WellFormedSlug(title) /\ ByteLength(title) <= SlugSourceMax)
           => slug1.link = title
    /\ slug2.done => slug2.link = slug1.link

-----------------------------------------------------------------------------
(* Page generation as a state machine: the wall clock moves on, and pages  *)
(* and home page grids are generated from one chain at the clock's reading. *)

\* the texts the chain of the pages is built from
PageTexts ==
    {<<"a", " ", "-", " ", "b", ".">>,
     <<"a", " ", "b", "!", " ", "b", " ", "a", ".">>,
     <<"É", " ", "a", ".", " ", "a", "1", "!">>,
     <<"!", " ", "a", ".">>,
     <<" ", "\n">>}

\* the readings of the wall clock (Unix seconds): two in one day, one in the next
ClockReadings == {1728000000, 1728000005, 1728086400}

\* the most calls that are made
MaxCalls == 2

\* the most posts asked of GenerateHomePagePosts
MaxCount == 2

\* the seeds GeneratePage is called with: an int64, negative ones included
PageSeeds == Seeds \cup {-2}

PageFrame == UNCHANGED <<chainVars, slugVars, cacheVars, streamVars>>

\* the calls made so far
CallsMade == Cardinality(calls) + Cardinality(homes) + Cardinality(running)

\* the seeds of the related links of the pages generated so far
LinkSeeds == {link.Seed : link \in UNION {Range(call.page.Links) : call \in calls}}

\* time passes
Tick ==
    /\ \E t \in ClockReadings : t > clock /\ clock' = t
    /\ UNCHANGED <<pchain, calls, homes, running>>
    /\ PageFrame

\* GeneratePage(seed, chain) is called: it returns a page, or one of its
\* generation loops goes on (GeneratePage has no other outcome: its error
\* returns pass on the error of GenerateStoryFromPrng, which is always nil)
CallGeneratePage(seed) ==
    /\ CallsMade < MaxCalls
    /\ \E page \in {GeneratePage(seed, pchain, clock)} :
          IF page.done
          THEN /\ calls' = calls \cup {[seed |-> seed, at |-> clock, page |-> page]}
               /\ UNCHANGED running
          ELSE /\ running' = running \cup {[seed |-> seed, at |-> clock]}
               /\ UNCHANGED calls
    /\ UNCHANGED <<clock, pchain, homes>>
    /\ PageFrame

\* GenerateHomePagePosts(chain, count) is called: it returns the posts, or
\* the first GeneratePage call whose loops go on keeps it from returning
CallGenerateHomePagePosts(count) ==
    /\ CallsMade < MaxCalls
    /\ \E posts \in {GenerateHomePagePosts(pchain, count, clock)} :
          IF \A i \in 1..count : posts[i].done
          THEN /\ homes' = homes \cup {[count |-> count, at |-> clock, posts |-> posts]}
               /\ UNCHANGED running
          ELSE /\ running' = running \cup
                      {[seed |-> posts[CHOOSE i \in 1..count :
                                          /\ ~posts[i].done
                                          /\ \A j \in 1..(i - 1) : posts[j].done].Link.Seed,
                        at |-> clock]}
               /\ UNCHANGED homes
    /\ UNCHANGED <<clock, pchain, calls>>
    /\ PageFrame

PageInit ==
    /\ clock \in ClockReadings /\ \A t \in ClockReadings : clock <= t
    /\ pchain \in {BuildModel(t) : t \in PageTexts}
    /\ calls = {} /\ homes = {} /\ running = {}
    /\ ChainIdle /\ SlugIdle /\ CacheIdle /\ StreamIdle

PageNext ==
    \/ Tick
    \/ \E seed \in PageSeeds \cup LinkSeeds : CallGeneratePage(seed)
    \/ \E count \in 1..MaxCount : CallGenerateHomePagePosts(count)

SpecPage == PageInit /\ [][PageNext]_vars

\* C1: two calls of GeneratePage with the same seed and the same chain return
\* pages equal in every field, whatever the clock read at each call.
C1_PageDeterminism ==
    \A a \in calls : \A b \in calls : a.seed = b.seed => a.page = b.page

\* C2: two calls of GenerateHomePagePosts with the same chain and count, made
\* at moments of the same day (Unix time divided by 86400), return the same
\* sequence of pages.
C2_HomeSameDay ==
    \A a \in homes : \A b \in homes :
        (a.count = b.count /\ a.at \div SecondsPerDay = b.at \div SecondsPerDay)
            => a.posts = b.posts

\* the slug part of a link's URL: what follows "/post/<seed>-"
SlugOf(link) ==
    SubSeq(link.Url, Len(PostUrl(link.Seed, <<>>)) + 1, Len(link.Url))

\* the links of a generated page: its own and the related ones
PageLinks(page) == {page.Link} \cup Range(page.Links)

\* C7: the slug in the URL of every link of every generated page has no two
\* hyphens in a row, no hyphen at either end and only characters of [a-z0-9-].
C7_SlugWellFormed ==
    \A call \in calls : \A link \in PageLinks(call.page) : WellFormedSlug(SlugOf(link))

\* C14: the page generated from the seed of a related link has that link as
\* its own: for every related link L of a generated page, GeneratePage(L.Seed)
\* on the same chain returns a page whose Link has the Url, Title and Seed of L.
C14_LinkReproducible ==
    \A a \in calls : \A b \in calls : \A i \in 1..Len(a.page.Links) :
        b.seed = a.page.Links[i].Seed =>
            /\ b.page.Link.Url = a.page.Links[i].Url
            /\ b.page.Link.Title = a.page.Links[i].Title
            /\ b.page.Link.Seed = a.page.Links[i].Seed

\* a page has been generated, and then the page of the second of its related
\* links, whose seed is not the page's own
C14_Witness ==
    \E a \in calls : \E b \in calls :
        /\ Len(a.page.Links) >= 2
        /\ b.seed = a.page.Links[2].Seed
        /\ b.seed # a.seed
        /\ b.page.Link.Title # a.page.Link.Title

\* C15: the posts GenerateHomePagePosts(chain, count) returns are count
\* pages, the i-th of them (i from 0) the page GeneratePage makes from the
\* seed base + i * 1000, base being the Unix time of the call divided by
\* 86400; the seeds of one call are pairwise different.
C15_HomeSeeds ==
    \A h \in homes :
        LET base == h.at \div 86400 IN
        /\ Len(h.posts) = h.count
        /\ \A i \in 0..(h.count - 1) :
              /\ h.posts[i + 1].Link.Seed = base + i * 1000
              /\ h.posts[i + 1] = GeneratePage(base + i * 1000, pchain, h.at)
        /\ \A i \in 1..h.count : \A j \in 1..h.count :
              i # j => h.posts[i].Link.Seed # h.posts[j].Link.Seed

\* a home page of two posts has been generated
C15_Witness ==
    \E h \in homes :
        /\ h.count >= 2
        /\ h.posts[2].Link.Seed = h.posts[1].Link.Seed + 1000
        /\ h.posts[1].Link.Title # <<>>

\* the first sample of GeneratePage(seed, chain), the first token of the
\* title, fails
FirstSampleFails(seed, c) == GenerateDeterministic(c, StartToken, NewSource(seed)).err

\* C13: a GeneratePage call whose model sampling fails returns an error: it
\* does not go on generating, and it does not return a page.
C13_SamplingErrorReturned ==
    /\ \A r \in running : ~FirstSampleFails(r.seed, pchain)
    /\ \A call \in calls : ~FirstSampleFails(call.seed, pchain)

-----------------------------------------------------------------------------
(* The model cache of main.go and the store of train.go: requests are      *)
(* served by workers that run concurrently and take one step at a time,    *)
(* a step being one access to app.cachedModel or one SQL statement.        *)

\* strings.SplitN(s, "-", 2)[0]: what stands before the first hyphen
BeforeHyphen(s) ==
    IF \E i \in 1..Len(s) : s[i] = "-"
    THEN SubSeq(s, 1, (CHOOSE i \in 1..Len(s) :
                          s[i] = "-" /\ \A j \in 1..(i - 1) : s[j] # "-") - 1)
    ELSE s

DecimalDigits == {"0", "1", "2", "3", "4", "5", "6", "7", "8", "9"}

RECURSIVE TrimZeros(_)
\* a run of digits without its leading zeros
TrimZeros(ds) == IF Len(ds) > 1 /\ ds[1] = "0" THEN TrimZeros(Tail(ds)) ELSE ds

\* a <= b for two runs of digits of the same length
DecimalLeq(a, b) ==
    \/ a = b
    \/ \E i \in 1..Len(a) :
          /\ SubSeq(a, 1, i - 1) = SubSeq(b, 1, i - 1)
          /\ DigitValue(a[i]) < DigitValue(b[i])

\* 1<<63 - 1 and 1<<63, the greatest magnitudes of an int64
MaxInt64Text == <<"9", "2", "2", "3", "3", "7", "2", "0", "3", "6",
                  "8", "5", "4", "7", "7", "5", "8", "0", "7">>
MinInt64Text == <<"9", "2", "2", "3", "3", "7", "2", "0", "3", "6",
                  "8", "5", "4", "7", "7", "5", "8", "0", "8">>

\* a parse that takes the digits of the text and passes over the rest
ParseIntLenient(s) ==
    LET ds == SelectSeq(s, LAMBDA c : c \in DecimalDigits)
    IN [ok |-> TRUE, val |-> IF ds = <<>> THEN 0 ELSE Atoi(ds)]

\* strconv.ParseInt(s, 10, 64), and strconv.Atoi(s) where int has 64 bits:
\* an optional sign and one or more decimal digits, within the range of int64
ParseInt(s) ==
    LET signed == s # <<>> /\ s[1] \in {"+", "-"}
        neg    == s # <<>> /\ s[1] = "-"
        ds     == IF signed THEN Tail(s) ELSE s
        syntax == ds # <<>> /\ \A i \in 1..Len(ds) : ds[i] \in DecimalDigits
        sig    == IF syntax THEN TrimZeros(ds) ELSE <<>>
        limit  == IF neg THEN MinInt64Text ELSE MaxInt64Text
        range  == Len(sig) < Len(limit) \/ (Len(sig) = Len(limit) /\ DecimalLeq(sig, limit))
    IN IF syntax /\ range
       THEN [ok |-> TRUE, val |-> IF neg THEN 0 - Atoi(sig) ELSE Atoi(sig)]
       ELSE [ok |-> FALSE, val |-> 0]

\* the bodies of training requests
CacheTexts == {<<>>, <<"a", ".">>, <<"b", "!">>}

\* the bodies and ids of update requests
CacheUpdateTexts == {<<>>, <<"a", " ", "b", "!">>}
UpdateIds == {1, 2}

\* the {id} of update requests: the ids, and texts that are no integer
BadUpdateIdTexts == {<<"x">>, <<"1", "-", "a">>}
UpdateIdTexts == {Itoa(id) : id \in UpdateIds} \cup BadUpdateIdTexts

\* the {id} of page requests: a seed with a slug, and texts whose part before
\* the first hyphen is no int64 (a word, nothing, 1<<63)
BadPageIdTexts == {<<"x">>, <<"-", "7", "-", "a">>, MinInt64Text \o <<"-", "a">>}
PageIdTexts == {<<"7", "-", "a">>} \cup BadPageIdTexts

\* the most requests that are served
MaxRequests == 4

\* the last second the store's clock reaches
MaxDbClock == 1

\* the pointer to a copy of a row
Model(row) == [ok |-> TRUE, id |-> row.id, data |-> row.data, created |-> row.created]

\* the rows with the given id
RowsOf(id) == {i \in 1..Len(rows) : rows[i].id = id}

\* ORDER BY created_at DESC LIMIT 1: a row with the greatest created_at; SQL
\* leaves open which one when several rows share it
LatestRows == {i \in 1..Len(rows) : \A j \in 1..Len(rows) : rows[j].created <= rows[i].created}

NoCommit == [kind |-> "none", id |-> 0, data |-> <<>>, write |-> 0]
NoStart  == [commit |-> NoCommit, nth |-> 0]

\* a worker that serves no request
Idle == [op |-> "idle", pc |-> "idle", arg |-> <<>>, text |-> <<>>, id |-> 0,
         m |-> NoModel, start |-> NoStart, write |-> 0, cleared |-> FALSE,
         status |-> "", result |-> NoModel]

\* the record of what has happened: the requests accepted, the writes to the
\* store, the last write that was followed by clearModelCache, and the
\* getLatestModel calls begun since
NoHist == [requests |-> 0, writes |-> 0, gets |-> 0, commit |-> NoCommit]

CacheFrame == UNCHANGED <<chainVars, pageVars, slugVars, streamVars>>

Free(w) == procs[w].pc \in {"idle", "done"} /\ hist.requests < MaxRequests

Goto(w, pc) == procs' = [procs EXCEPT ![w].pc = pc]

Finish(w, status, result) ==
    procs' = [procs EXCEPT ![w].pc = "done", ![w].status = status, ![w].result = result]

\* generatePageStreamHandler: a page request arrives; an {id} whose part
\* before the first hyphen is no int64 is answered with 400, otherwise
\* streamPage calls getLatestModel
PageStart(w, idText) ==
    /\ Free(w)
    /\ IF ~ParseInt(BeforeHyphen(idText)).ok
       THEN /\ procs' = [procs EXCEPT ![w] =
                            [Idle EXCEPT !.op = "page", !.pc = "done", !.arg = idText,
                                         !.status = "400"]]
            /\ hist' = [hist EXCEPT !.requests = @ + 1]
       ELSE /\ procs' = [procs EXCEPT ![w] =
                            [Idle EXCEPT !.op = "page", !.pc = "check", !.arg = idText,
                                         !.start = [commit |-> hist.commit,
                                                    nth |-> hist.gets + 1]]]
            /\ hist' = [hist EXCEPT !.requests = @ + 1, !.gets = @ + 1]
    /\ UNCHANGED <<rows, dbclock, cachedModel>>
    /\ CacheFrame

\* a getLatestModel that goes to the store when the slot does not hold the
\* newest row
GetCheckRefresh(w) ==
    /\ procs[w].pc = "check"
    /\ procs' = [procs EXCEPT ![w].pc = IF cachedModel.ok /\ cachedModel = Model(Last(rows))
                                        THEN "hit" ELSE "query",
                              ![w].m = cachedModel]
    /\ UNCHANGED <<rows, dbclock, cachedModel, hist>>
    /\ CacheFrame

\* if app.cachedModel != nil: the slot is read, without synchronisation
GetCheck(w) ==
    /\ procs[w].pc = "check"
    /\ procs' = [procs EXCEPT ![w].pc = IF cachedModel.ok THEN "hit" ELSE "query",
                              ![w].m = cachedModel]
    /\ UNCHANGED <<rows, dbclock, cachedModel, hist>>
    /\ CacheFrame

\* return app.cachedModel, nil: the value returned is the one the nil test saw
\* or the one the slot holds now (the reads race with the writes of other
\* requests); status "nil" is the return of a nil pointer with a nil error,
\* on which the caller's model.ModelData panics
GetHit(w) ==
    /\ procs[w].pc = "hit"
    /\ \E r \in {procs[w].m, cachedModel} :
          Finish(w, IF r.ok THEN "200" ELSE "nil", r)
    /\ UNCHANGED <<rows, dbclock, cachedModel, hist>>
    /\ CacheFrame

\* app.store.GetAllMarkovChainModels(1) and the len(models) == 0 check
GetQuery(w) ==
    /\ procs[w].pc = "query"
    /\ IF rows = <<>>
       THEN Finish(w, "500", NoModel)
       ELSE \E i \in LatestRows :
               procs' = [procs EXCEPT ![w].pc = "fill", ![w].m = Model(rows[i])]
    /\ UNCHANGED <<rows, dbclock, cachedModel, hist>>
    /\ CacheFrame

\* app.cachedModel = &models[0]
GetFill(w) ==
    /\ procs[w].pc = "fill"
    /\ cachedModel' = procs[w].m
    /\ Goto(w, "log")
    /\ UNCHANGED <<rows, dbclock, hist>>
    /\ CacheFrame

\* log.Printf(..., app.cachedModel.ID): the slot is read again, the read
\* seeing the pointer this request stored or what the slot holds now; on a
\* nil pointer getLatestModel panics and does not return
GetLog(w) ==
    /\ procs[w].pc = "log"
    /\ \E r \in {procs[w].m, cachedModel} :
          IF r.ok THEN Goto(w, "return") ELSE Finish(w, "panic", NoModel)
    /\ UNCHANGED <<rows, dbclock, cachedModel, hist>>
    /\ CacheFrame

\* return app.cachedModel, nil: read once more
GetReturn(w) ==
    /\ procs[w].pc = "return"
    /\ \E r \in {procs[w].m, cachedModel} :
          Finish(w, IF r.ok THEN "200" ELSE "nil", r)
    /\ UNCHANGED <<rows, dbclock, cachedModel, hist>>
    /\ CacheFrame

\* trainMarkovModelHandler up to SaveMarkovChainModel: an empty body is
\* answered with 400, the model is built and serialized
TrainStart(w, text) ==
    /\ Free(w)
    /\ procs' = [procs EXCEPT ![w] =
                    IF text = <<>>
                    THEN [Idle EXCEPT !.op = "train", !.pc = "done", !.status = "400"]
                    ELSE [Idle EXCEPT !.op = "train", !.pc = "insert", !.text = text,
                                      !.m = [NoModel EXCEPT
                                                !.data = SerializeModel(BuildModel(text))]]]
    /\ hist' = [hist EXCEPT !.requests = @ + 1]
    /\ UNCHANGED <<rows, dbclock, cachedModel>>
    /\ CacheFrame

\* SaveMarkovChainModel: INSERT INTO markov_chain_model (model_data)
TrainInsert(w) ==
    /\ procs[w].op = "train" /\ procs[w].pc = "insert"
    /\ rows' = Append(rows, [id |-> Len(rows) + 1, data |-> procs[w].m.data,
                             created |-> dbclock])
    /\ hist' = [hist EXCEPT !.writes = @ + 1]
    /\ procs' = [procs EXCEPT ![w].pc = "reread", ![w].id = Len(rows) + 1,
                              ![w].write = hist.writes + 1]
    /\ UNCHANGED <<dbclock, cachedModel>>
    /\ CacheFrame

\* SaveMarkovChainModel / UpdateMarkovChainModel: SELECT ... WHERE id = ?
StoreReread(w) ==
    /\ procs[w].pc = "reread"
    /\ \E i \in RowsOf(procs[w].id) :
          procs' = [procs EXCEPT ![w].pc = "clear", ![w].result = Model(rows[i])]
    /\ UNCHANGED <<rows, dbclock, cachedModel, hist>>
    /\ CacheFrame

\* the cache is cleared before the handler writes to the store
ClearBeforeWrite(w) ==
    /\ procs[w].pc \in {"insert", "write"} /\ ~procs[w].cleared
    /\ cachedModel' = NoModel
    /\ procs' = [procs EXCEPT ![w].cleared = TRUE]
    /\ UNCHANGED <<rows, dbclock, hist>>
    /\ CacheFrame

\* app.clearModelCache() and the response of the handler
HandlerClear(w) ==
    /\ procs[w].pc = "clear"
    /\ cachedModel' = NoModel
    /\ hist' = [hist EXCEPT !.gets = 0,
                            !.commit = [kind |-> procs[w].op, id |-> procs[w].id,
                                        data |-> procs[w].m.data, write |-> procs[w].write]]
    /\ procs' = [procs EXCEPT ![w].pc = "done", ![w].cleared = TRUE,
                              ![w].status = IF procs[w].op = "train" THEN "201" ELSE "200"]
    /\ UNCHANGED <<rows, dbclock>>
    /\ CacheFrame

\* updateMarkovModelHandler up to GetMarkovChainModel: an {id} that is no
\* integer is answered with 400, and so is an empty body
UpdateStart(w, idText, text) ==
    /\ Free(w)
    /\ procs' = [procs EXCEPT ![w] =
                    IF ~ParseInt(idText).ok \/ text = <<>>
                    THEN [Idle EXCEPT !.op = "update", !.pc = "done", !.arg = idText,
                                      !.status = "400"]
                    ELSE [Idle EXCEPT !.op = "update", !.pc = "get", !.arg = idText,
                                      !.id = ParseInt(idText).val, !.text = text]]
    /\ hist' = [hist EXCEPT !.requests = @ + 1]
    /\ UNCHANGED <<rows, dbclock, cachedModel>>
    /\ CacheFrame

\* a handler that empties the cache slot when it finds no row of the id
UpdateGetClears(w) ==
    /\ procs[w].op = "update" /\ procs[w].pc = "get"
    /\ RowsOf(procs[w].id) = {}
    /\ cachedModel' = NoModel
    /\ Finish(w, "404", NoModel)
    /\ UNCHANGED <<rows, dbclock, hist>>
    /\ CacheFrame

\* app.store.GetMarkovChainModel(id), 404 when there is no such row; then
\* LoadModel, AddTextToModel and SerializeModel
UpdateGet(w) ==
    /\ procs[w].op = "update" /\ procs[w].pc = "get"
    /\ IF RowsOf(procs[w].id) = {}
       THEN Finish(w, "404", NoModel)
       ELSE \E i \in RowsOf(procs[w].id) :
               procs' = [procs EXCEPT
                            ![w].pc = "write",
                            ![w].m = [Model(rows[i]) EXCEPT !.data =
                                        SerializeModel(AddTextToModel(
                                            LoadModel(rows[i].data), procs[w].text))]]
    /\ UNCHANGED <<rows, dbclock, cachedModel, hist>>
    /\ CacheFrame

\* UpdateMarkovChainModel: UPDATE markov_chain_model SET model_data = ?
\* WHERE id = ?, which leaves created_at as it is; 500 when no row is affected
UpdateWrite(w) ==
    /\ procs[w].op = "update" /\ procs[w].pc = "write"
    /\ IF RowsOf(procs[w].id) = {}
       THEN /\ Finish(w, "500", NoModel)
            /\ UNCHANGED <<rows, hist>>
       ELSE /\ rows' = [i \in 1..Len(rows) |->
                          IF rows[i].id = procs[w].id
                          THEN [rows[i] EXCEPT !.data = procs[w].m.data]
                          ELSE rows[i]]
            /\ hist' = [hist EXCEPT !.writes = @ + 1]
            /\ procs' = [procs EXCEPT ![w].pc = "reread", ![w].write = hist.writes + 1]
    /\ UNCHANGED <<dbclock, cachedModel>>
    /\ CacheFrame

\* a second passes on the clock behind CURRENT_TIMESTAMP
DbTick ==
    /\ dbclock < MaxDbClock
    /\ dbclock' = dbclock + 1
    /\ UNCHANGED <<rows, cachedModel, procs, hist>>
    /\ CacheFrame

Workers == {"w1", "w2"}

CacheInit ==
    /\ rows = <<>> /\ dbclock = 0 /\ cachedModel = NoModel
    /\ procs = [w \in Workers |-> Idle] /\ hist = NoHist
    /\ ChainIdle /\ PageIdle /\ SlugIdle /\ StreamIdle

CacheNext ==
    \/ \E w \in DOMAIN procs : \E idText \in PageIdTexts : PageStart(w, idText)
    \/ \E w \in DOMAIN procs : GetCheck(w)
    \/ \E w \in DOMAIN procs : GetHit(w)
    \/ \E w \in DOMAIN procs : GetQuery(w)
    \/ \E w \in DOMAIN procs : GetFill(w)
    \/ \E w \in DOMAIN procs : GetLog(w)
    \/ \E w \in DOMAIN procs : GetReturn(w)
    \/ \E w \in DOMAIN procs : \E text \in CacheTexts : TrainStart(w, text)
    \/ \E w \in DOMAIN procs : TrainInsert(w)
    \/ \E w \in DOMAIN procs : StoreReread(w)
    \/ \E w \in DOMAIN procs : HandlerClear(w)
    \/ \E w \in DOMAIN procs : \E idText \in UpdateIdTexts : \E text \in CacheUpdateTexts :
          UpdateStart(w, idText, text)
    \/ \E w \in DOMAIN procs : UpdateGet(w)
    \/ \E w \in DOMAIN procs : UpdateWrite(w)
    \/ DbTick

\* requests served concurrently
SpecCache == CacheInit /\ [][CacheNext]_vars

SeqInit ==
    /\ rows = <<>> /\ dbclock = 0 /\ cachedModel = NoModel
    /\ procs = [w \in {"w1"} |-> Idle] /\ hist = NoHist
    /\ ChainIdle /\ PageIdle /\ SlugIdle /\ StreamIdle

\* requests served one after the other
SpecCacheSeq == SeqInit /\ [][CacheNext]_vars

\* one goroutine serving the page requests beside one serving the training
\* and update requests
ReaderWriterNext ==
    \/ \E idText \in PageIdTexts : PageStart("w1", idText)
    \/ GetCheck("w1")
    \/ GetHit("w1")
    \/ GetQuery("w1")
    \/ GetFill("w1")
    \/ GetLog("w1")
    \/ GetReturn("w1")
    \/ \E text \in CacheTexts : TrainStart("w2", text)
    \/ TrainInsert("w2")
    \/ StoreReread("w2")
    \/ HandlerClear("w2")
    \/ \E idText \in UpdateIdTexts : \E text \in CacheUpdateTexts :
          UpdateStart("w2", idText, text)
    \/ UpdateGet("w2")
    \/ UpdateWrite("w2")
    \/ DbTick

\* page requests served beside training and update requests
SpecCacheReaderWriter == CacheInit /\ [][ReaderWriterNext]_vars

\* no two rows of the store were created in the same second
DistinctTimes ==
    \A i \in 1..Len(rows) : \A j \in 1..Len(rows) : i # j => rows[i].created # rows[j].created

\* the getLatestModel calls that have returned a model to their caller
Returned == {w \in DOMAIN procs :
                procs[w].op = "page" /\ procs[w].pc = "done" /\ procs[w].status = "200"}

\* C3: when an update of model id k has written the store and cleared the
\* cache, the next getLatestModel call (with no write to the store in between)
\* returns the bytes written by that update, whichever row of the store k is.
C3_UpdateVisible ==
    \A w \in Returned :
        (/\ procs[w].start.nth = 1
         /\ procs[w].start.commit.kind = "update"
         /\ procs[w].start.commit.write = hist.writes
         /\ DistinctTimes)
            => /\ procs[w].result.id = procs[w].start.commit.id
               /\ procs[w].result.data = procs[w].start.commit.data

\* C4: when a training request has saved its model and cleared the cache,
\* every getLatestModel call that starts afterwards (with no later write to the
\* store) returns the model that request wrote, whatever the page requests
\* that ran beside it did to the cache.
C4_NoStaleFill ==
    \A w \in Returned :
        (/\ procs[w].start.commit.kind = "train"
         /\ procs[w].start.commit.write = hist.writes
         /\ DistinctTimes)
            => /\ procs[w].result.id = procs[w].start.commit.id
               /\ procs[w].result.data = procs[w].start.commit.data

\* C12: getLatestModel on a non-empty slot returns what the slot holds and
\* does not read the store; on an empty slot it reads the model created most
\* recently (the row inserted last), puts it in the slot and returns it; on an
\* empty store it fails and the slot stays empty.
C12_GetLatestModel ==
    \A w \in DOMAIN procs : procs[w].op = "page" =>
        /\ procs[w].pc = "hit" => cachedModel.ok /\ procs[w].m = cachedModel
        /\ procs[w].pc = "query" => ~cachedModel.ok
        /\ procs[w].pc = "fill" => procs[w].m = Model(Last(rows))
        /\ (procs[w].pc = "done" /\ procs[w].status = "200") =>
               procs[w].result.ok /\ procs[w].result = cachedModel
        /\ (procs[w].pc = "done" /\ procs[w].status = "500") =>
               rows = <<>> /\ ~cachedModel.ok

\* C16: a page request with an id that parses, served while the store holds
\* no model, is answered with status 404.
C16_NoModelNotFound ==
    \A w \in DOMAIN procs :
        (/\ procs[w].op = "page" /\ procs[w].pc = "done"
         /\ ParseInt(BeforeHyphen(procs[w].arg)).ok
         /\ rows = <<>>)
            => procs[w].status = "404"

\* a request that is to be rejected for its input: a training or update
\* request with an empty body, an update request whose id is no integer, a
\* page request whose id prefix is no int64
BadRequest(p) ==
    \/ p.op = "train" /\ p.text = <<>>
    \/ p.op = "update" /\ (p.text = <<>> \/ p.arg \in BadUpdateIdTexts)
    \/ p.op = "page" /\ p.arg \in BadPageIdTexts

\* C17: a request with an empty body (training, update), with an id that is
\* no integer (update) or with an id prefix that is no int64 (page) is
\* answered with 400 in the step that takes it up; that step writes nothing
\* to the store and leaves the cache slot as it is, and the request takes no
\* further step: it has not written, not cleared the cache, and is not tried
\* again.
C17_BadInputRejected ==
    [][\A w \in DOMAIN procs :
          /\ BadRequest(procs'[w]) =>
                /\ procs'[w].pc = "done" /\ procs'[w].status = "400"
                /\ procs'[w].write = 0 /\ ~procs'[w].cleared
          /\ (procs'[w] # procs[w] /\ BadRequest(procs'[w])) =>
                /\ procs[w].pc \in {"idle", "done"}
                /\ rows' = rows /\ cachedModel' = cachedModel
                /\ hist'.writes = hist.writes /\ hist'.requests = hist.requests + 1]_vars

\* an update request with an id that is no integer and a body that is not
\* empty has been rejected while the store holds a model and the slot is filled
C17_Witness ==
    \E w \in DOMAIN procs :
        /\ procs[w].op = "update" /\ procs[w].arg \in BadUpdateIdTexts
        /\ procs[w].pc = "done" /\ procs[w].status = "400"
        /\ rows # <<>> /\ cachedModel.ok

\* C18: an update request for an id the store does not hold is answered
\* with 404; neither that step nor an earlier step of the request writes to
\* the store or changes the cache slot, and the request has not written or
\* cleared.  A getLatestModel call that finds the store empty fails and leaves
\* the slot as it is.
C18_NotFoundUntouched ==
    [][\A w \in DOMAIN procs :
          /\ (/\ procs'[w] # procs[w]
              /\ procs[w].op = "update" /\ procs[w].pc = "get"
              /\ RowsOf(procs[w].id) = {})
                => /\ procs'[w].pc = "done" /\ procs'[w].status = "404"
                   /\ procs'[w].write = 0 /\ ~procs'[w].cleared
                   /\ rows' = rows /\ cachedModel' = cachedModel
          /\ (/\ procs'[w] # procs[w]
              /\ procs'[w].op = "update" /\ procs'[w].pc = "get")
                => rows' = rows /\ cachedModel' = cachedModel
          /\ (procs'[w].op = "update" /\ procs'[w].status = "404")
                => procs'[w].write = 0 /\ ~procs'[w].cleared
          /\ (/\ procs'[w] # procs[w]
              /\ procs[w].op = "page" /\ procs[w].pc = "query"
              /\ rows = <<>>)
                => /\ procs'[w].pc = "done" /\ procs'[w].status # "200"
                   /\ ~procs'[w].result.ok
                   /\ rows' = rows /\ cachedModel' = cachedModel]_vars

\* an update request for an id that is not in the store has been answered
\* with 404 while the store holds a model and the slot is filled
C18_Witness ==
    \E w \in DOMAIN procs :
        /\ procs[w].op = "update" /\ procs[w].pc = "done" /\ procs[w].status = "404"
        /\ RowsOf(procs[w].id) = {}
        /\ rows # <<>> /\ cachedModel.ok

ReturnedNoError == {w \in DOMAIN procs :
                       /\ procs[w].op = "page" /\ procs[w].pc = "done"
                       /\ procs[w].status \in {"200", "nil"}}

\* C20: whatever the interleaving with clearModelCache and with other
\* getLatestModel calls, a getLatestModel call that returns a nil error returns
\* a model: a pointer that is not nil, to the id, the bytes and the creation
\* time of one row of the store (the bytes are compared while no update has
\* rewritten a row).
C20_CompleteModel ==
    \A w \in ReturnedNoError :
        /\ procs[w].result.ok
        /\ \E i \in 1..Len(rows) :
              /\ rows[i].id = procs[w].result.id
              /\ rows[i].created = procs[w].result.created
              /\ hist.writes = Len(rows) => rows[i].data = procs[w].result.data

\* C27: the slot is changed only by the fill of a getLatestModel call that
\* found it empty and by clearModelCache; a getLatestModel call that finds a
\* model in the slot does not go to the store, whatever the store holds by
\* then, and when the slot has not been written since, it returns that model.
C27_NoImplicitRefresh ==
    [][/\ cachedModel' # cachedModel =>
             \E w \in DOMAIN procs :
                \/ /\ procs[w].op = "page" /\ procs[w].pc = "fill"
                   /\ procs'[w].pc = "log" /\ cachedModel' = procs[w].m
                \/ /\ procs[w].pc = "clear" /\ procs'[w].pc = "done"
                   /\ cachedModel' = NoModel
       /\ \A w \in DOMAIN procs :
             /\ (procs[w].pc = "check" /\ cachedModel.ok /\ procs'[w] # procs[w])
                    => procs'[w].pc = "hit" /\ procs'[w].m = cachedModel
             /\ (procs[w].pc = "hit" /\ procs'[w] # procs[w])
                    => /\ procs'[w].pc = "done"
                       /\ cachedModel = procs[w].m =>
                              procs'[w].status = "200" /\ procs'[w].result = cachedModel
       /\ \A w \in DOMAIN procs : procs[w].pc = "query" => ~procs[w].m.ok
      ]_vars

\* a getLatestModel call has found a model in the slot and is returning it
\* while the store holds a newer row, written by a training request that has
\* not yet called clearModelCache
C27_Witness ==
    \E w \in DOMAIN procs : \E v \in DOMAIN procs :
        /\ procs[w].op = "page" /\ procs[w].pc = "hit"
        /\ cachedModel.ok /\ procs[w].m = cachedModel
        /\ Len(rows) >= 2 /\ cachedModel.id # Last(rows).id
        /\ cachedModel.created < Last(rows).created
        /\ procs[v].op = "train" /\ procs[v].pc \in {"reread", "clear"}

-----------------------------------------------------------------------------
(* streamPage of main.go: the response of one page request, an event being *)
(* a write to the response, a flush of it, or a sleep of the worker.        *)

\* 50 * time.Millisecond, in nanoseconds
wordDelay == 50000000

\* the base delay after a character of the title: wordDelay / 3
TitleDelay == wordDelay \div 3

\* prng.Float64() is one of the fractions k / JitterSteps, 0 <= k < JitterSteps
JitterSteps == 10

\* the draws that are tried: the least and the greatest
JitterDraws == {0, JitterSteps - 1}

\* the quotient of a by b > 0, rounded toward zero as a conversion to
\* time.Duration rounds
Trunc(a, b) == IF a >= 0 THEN a \div b ELSE 0 - ((0 - a) \div b)

\* addJitter with delays of up to half of the base delay
addJitterHalf(baseDelay, k) ==
    baseDelay + Trunc((2 * k - JitterSteps) * (5 * (baseDelay \div 10)), JitterSteps)

\* addJitter(baseDelay) when prng.Float64() returns k / JitterSteps:
\* baseDelay + Duration((f*2 - 1) * (baseDelay * 0.3))
addJitter(baseDelay, k) ==
    baseDelay + Trunc((2 * k - JitterSteps) * (3 * baseDelay), 10 * JitterSteps)

\* html.EscapeString of one character
HtmlEscapeChar(c) ==
    CASE c = "&"  -> <<"&", "a", "m", "p", ";">>
      [] c = "<"  -> <<"&", "l", "t", ";">>
      [] c = ">"  -> <<"&", "g", "t", ";">>
      [] c = "'"  -> <<"&", "#", "3", "9", ";">>
      [] c = "\"" -> <<"&", "#", "3", "4", ";">>
      [] OTHER    -> <<c>>

\* html.EscapeString
HtmlEscape(str) == Concat([i \in 1..Len(str) |-> HtmlEscapeChar(str[i])])

\* the title taken word by word
TitleWords(t) == Fields(t)

\* range story.Link.Title: the title taken character by character
TitleUnits(t) == [i \in 1..Len(t) |-> <<t[i]>>]

WriteEv(region, data) == [kind |-> "write", region |-> region, data |-> data, d |-> 0]
FlushEv(region)       == [kind |-> "flush", region |-> region, data |-> <<>>, d |-> 0]
SleepEv(region, d)    == [kind |-> "sleep", region |-> region, data |-> <<>>, d |-> d]
ErrorEv(status)       == [kind |-> "error", region |-> "error", data |-> status, d |-> 0]

\* the texts of the stored model and the seeds of the page requests
StreamTexts == {<<"a", ".">>, <<"b", " ", "&", ".">>, <<"a", "!", " ", "b", " ", "&", ".">>}
StreamSeeds == {5, 9}

StreamFrame == UNCHANGED <<chainVars, pageVars, slugVars, rows, dbclock, procs, hist>>

\* generatePageStreamHandler and streamPage up to GeneratePage: the model
\* comes from getLatestModel, a failure is answered with 500
StreamStart(seed) ==
    /\ spc \in {"idle", "done"}
    /\ sidx' = 1 /\ lidx' = 0 /\ jit' = 0 /\ sink' = SinkOpen
    /\ IF ~cachedModel.ok /\ rows = <<>>
       THEN /\ out' = <<ErrorEv("500")>>
            /\ spc' = "done"
            /\ UNCHANGED <<story, cachedModel, sink>>
       ELSE \E i \in IF cachedModel.ok THEN {0} ELSE LatestRows :
               \E model \in {IF cachedModel.ok THEN cachedModel ELSE Model(rows[i])} :
                  \E page \in {GeneratePage(seed, LoadModel(model.data), clock)} :
                     /\ page.done
                     /\ cachedModel' = model
                     /\ story' = page
                     /\ out' = <<>>
                     /\ spc' = "header"
    /\ StreamFrame

\* the header is written and flushed
StreamHeader ==
    /\ spc = "header"
    /\ out' = out \o <<WriteEv("header", [title |-> HtmlEscape(story.Link.Title),
                                         author |-> story.Author,
                                         updated |-> story.LastUpdated]),
                       FlushEv("header")>>
    /\ spc' = "title_write"
    /\ UNCHANGED <<story, sidx, lidx, jit, cachedModel, sink>>
    /\ StreamFrame

\* w.Write([]byte(html.EscapeString(string(char))))
TitleWrite ==
    /\ spc = "title_write" /\ sidx <= Len(TitleUnits(story.Link.Title))
    /\ out' = Append(out, WriteEv("title", HtmlEscape(TitleUnits(story.Link.Title)[sidx])))
    /\ spc' = "title_flush"
    /\ UNCHANGED <<story, sidx, lidx, jit, cachedModel, sink>>
    /\ StreamFrame

\* w.(http.Flusher).Flush()
TitleFlush ==
    /\ spc = "title_flush"
    /\ out' = Append(out, FlushEv("title"))
    /\ spc' = "title_sleep"
    /\ UNCHANGED <<story, sidx, lidx, jit, cachedModel, sink>>
    /\ StreamFrame

\* time.Sleep(addJitter(wordDelay / 3))
TitleSleep(k) ==
    /\ spc = "title_sleep"
    /\ out' = Append(out, SleepEv("title", addJitter(TitleDelay, k)))
    /\ jit' = k
    /\ sidx' = sidx + 1
    /\ spc' = "title_write"
    /\ UNCHANGED <<story, lidx, cachedModel, sink>>
    /\ StreamFrame

\* after the title: the metadata is written and flushed
StreamMetadata ==
    /\ spc = "title_write" /\ sidx > Len(TitleUnits(story.Link.Title))
    /\ out' = out \o <<WriteEv("metadata", [author |-> story.Author,
                                           updated |-> story.LastUpdated]),
                       FlushEv("metadata")>>
    /\ spc' = "body"
    /\ sidx' = 1
    /\ UNCHANGED <<story, lidx, jit, cachedModel, sink>>
    /\ StreamFrame

\* body-word writes before the metadata that closes the title
BodyWordEarly(k) ==
    /\ spc \in {"title_write", "body"} /\ sidx <= Len(Fields(story.Content))
    /\ out' = out \o <<WriteEv("body", HtmlEscape(Fields(story.Content)[sidx])),
                       FlushEv("body"),
                       SleepEv("body", addJitter(wordDelay, k))>>
    /\ jit' = k
    /\ sidx' = sidx + 1
    /\ UNCHANGED <<spc, story, lidx, cachedModel, sink>>
    /\ StreamFrame

\* one word of the body: a space before every word but the first, the
\* word, a flush and a sleep
BodyWord(k) ==
    /\ spc = "body" /\ sidx <= Len(Fields(story.Content))
    /\ out' = out \o (IF sidx > 1 THEN <<WriteEv("body", <<" ">>)>> ELSE <<>>)
                  \o <<WriteEv("body", HtmlEscape(Fields(story.Content)[sidx])),
                       FlushEv("body"),
                       SleepEv("body", addJitter(wordDelay, k))>>
    /\ jit' = k
    /\ sidx' = sidx + 1
    /\ UNCHANGED <<spc, story, lidx, cachedModel, sink>>
    /\ StreamFrame

\* after the body: the opening of the list of links
StreamLinksStart ==
    /\ spc = "body" /\ sidx > Len(Fields(story.Content))
    /\ out' = out \o <<WriteEv("links", <<>>), FlushEv("links")>>
    /\ spc' = "links"
    /\ lidx' = 1
    /\ sidx' = 0
    /\ UNCHANGED <<story, jit, cachedModel, sink>>
    /\ StreamFrame

\* the opening of one link with its URL
LinkOpen ==
    /\ spc = "links" /\ lidx <= Len(story.Links) /\ sidx = 0
    /\ out' = out \o <<WriteEv("link", HtmlEscape(story.Links[lidx].Url)), FlushEv("link")>>
    /\ sidx' = 1
    /\ UNCHANGED <<spc, story, lidx, jit, cachedModel, sink>>
    /\ StreamFrame

\* one character of the title of a link: written, flushed, slept after
LinkChar(k) ==
    /\ spc = "links" /\ lidx <= Len(story.Links)
    /\ sidx >= 1 /\ sidx <= Len(story.Links[lidx].Title)
    /\ out' = out \o <<WriteEv("linktitle", HtmlEscape(<<story.Links[lidx].Title[sidx]>>)),
                       FlushEv("linktitle"),
                       SleepEv("linktitle", addJitter(wordDelay \div 3, k))>>
    /\ jit' = k
    /\ sidx' = sidx + 1
    /\ UNCHANGED <<spc, story, lidx, cachedModel, sink>>
    /\ StreamFrame

\* the closing of one link
LinkClose ==
    /\ spc = "links" /\ lidx <= Len(story.Links)
    /\ sidx > Len(story.Links[lidx].Title)
    /\ out' = out \o <<WriteEv("linkend", <<>>), FlushEv("linkend")>>
    /\ lidx' = lidx + 1
    /\ sidx' = 0
    /\ UNCHANGED <<spc, story, jit, cachedModel, sink>>
    /\ StreamFrame

\* after the links: the footer
StreamFooter ==
    /\ spc = "links" /\ lidx > Len(story.Links)
    /\ out' = out \o <<WriteEv("footer", <<>>), FlushEv("footer")>>
    /\ spc' = "done"
    /\ UNCHANGED <<story, sidx, lidx, jit, cachedModel, sink>>
    /\ StreamFrame

\* the client goes away once the header has been flushed to it: every later
\* w.Write returns an error.  The worker is not told in any other way, and
\* streamPage does not look at what w.Write returns.
Disconnect ==
    /\ spc = "title_write" /\ sidx = 1
    /\ sink.open
    /\ sink' = [open |-> FALSE, at |-> Len(out)]
    /\ UNCHANGED <<spc, story, sidx, lidx, out, jit, cachedModel>>
    /\ StreamFrame

StreamInit ==
    /\ rows \in {<<>>} \cup {<<[id |-> 1, data |-> SerializeModel(BuildModel(t)),
                               created |-> 0]>> : t \in StreamTexts}
    /\ dbclock = 0 /\ cachedModel = NoModel /\ procs = <<>> /\ hist = <<>>
    /\ clock \in ClockReadings /\ \A t \in ClockReadings : clock <= t
    /\ pchain = NewChain /\ calls = {} /\ homes = {} /\ running = {}
    /\ StreamIdle /\ ChainIdle /\ SlugIdle

StreamNext ==
    \/ \E seed \in StreamSeeds : StreamStart(seed)
    \/ StreamHeader
    \/ TitleWrite
    \/ TitleFlush
    \/ \E k \in JitterDraws : TitleSleep(k)
    \/ StreamMetadata
    \/ \E k \in JitterDraws : BodyWord(k)
    \/ StreamLinksStart
    \/ LinkOpen
    \/ \E k \in JitterDraws : LinkChar(k)
    \/ LinkClose
    \/ StreamFooter
    \/ Disconnect

SpecStream == StreamInit /\ [][StreamNext]_vars

\* the events of the title loop, in the order they happened
TitleEvents == SelectSeq(out, LAMBDA e : e.region = "title")

\* the title loop has come to its end
TitleStreamed == spc \in {"body", "links", "done"} /\ out # <<>> /\ out[1].kind # "error"

\* C9: the title of L characters goes out as L write+flush pairs, one for each
\* character in order: the character is written, then flushed, then the worker
\* sleeps, and only then the next character is written.
C9_TitlePerCharacter ==
    LET t == story.Link.Title
        ev == TitleEvents
    IN /\ \A n \in 1..Len(ev) :
             /\ (n + 2) \div 3 <= Len(t)
             /\ n % 3 = 1 => ev[n] = WriteEv("title", HtmlEscapeChar(t[(n + 2) \div 3]))
             /\ n % 3 = 2 => ev[n].kind = "flush"
             /\ n % 3 = 0 => ev[n].kind = "sleep"
       /\ TitleStreamed => Len(ev) = 3 * Len(t)

\* a title of four characters, one of them escaped, has been streamed
C9_Witness ==
    /\ TitleStreamed
    /\ Len(story.Link.Title) = 4
    /\ \E n \in 1..Len(TitleEvents) : Len(TitleEvents[n].data) > 1
    /\ Cardinality({n \in 1..Len(TitleEvents) : TitleEvents[n].kind = "write"}) = 4

\* the sleeps after the characters of the title
TitleSleeps == {TitleEvents[n].d : n \in {m \in 1..Len(TitleEvents) : TitleEvents[m].kind = "sleep"}}

\* 2000 * time.Millisecond, the target duration of the title, in nanoseconds
titleTime == 2000000000

RegionRank(region) ==
    CASE region \in {"header", "title", "metadata"}               -> 1
      [] region = "body"                                            -> 2
      [] region \in {"links", "link", "linktitle", "linkend"}       -> 3
      [] region = "footer"                                          -> 4
      [] OTHER                                                      -> 0

\* the writes of out, in order
Writes == SelectSeq(out, LAMBDA e : e.kind = "write")

\* the writes of one related link: its opening with the URL, the characters
\* of its title, its closing
LinkWrites(link) ==
    <<WriteEv("link", HtmlEscape(link.Url))>>
        \o [i \in 1..Len(link.Title) |-> WriteEv("linktitle", HtmlEscapeChar(link.Title[i]))]
        \o <<WriteEv("linkend", <<>>)>>

\* the writes of the related links of a page, in the order of page.Links
LinksWrites(links) == Concat([i \in 1..Len(links) |-> LinkWrites(links[i])])

\* the writes of the words of the body, each after a space but the first
BodyWrites(content) ==
    Concat([i \in 1..Len(Fields(content)) |->
               (IF i > 1 THEN <<WriteEv("body", <<" ">>)>> ELSE <<>>)
                   \o <<WriteEv("body", HtmlEscape(Fields(content)[i]))>>])

IsPrefix(s, t) == Len(s) <= Len(t) /\ s = SubSeq(t, 1, Len(s))


\* C11: the regions of a generated page go out in order: no event of a region
\* comes after an event of a later region (header and title, then body, then
\* related links, then footer); the body is written word by word in the order
\* of the content, and the related links are written one after the other in the
\* order of page.Links, each whole before the next is opened.
C11_RegionOrder ==
    (out # <<>> /\ out[1].kind # "error") =>
        /\ \A i \in 1..Len(out) : \A j \in i..Len(out) :
              /\ RegionRank(out[i].region) >= 1
              /\ RegionRank(out[i].region) <= RegionRank(out[j].region)
        /\ IsPrefix(SelectSeq(Writes, LAMBDA e : e.region = "body"),
                    BodyWrites(story.Content))
        /\ IsPrefix(SelectSeq(Writes, LAMBDA e : e.region \in {"link", "linktitle", "linkend"}),
                    LinksWrites(story.Links))
        /\ spc = "done" =>
              /\ out[Len(out) - 1] = WriteEv("footer", <<>>)
              /\ SelectSeq(Writes, LAMBDA e : e.region = "body") = BodyWrites(story.Content)
              /\ SelectSeq(Writes, LAMBDA e : e.region \in {"link", "linktitle", "linkend"})
                     = LinksWrites(story.Links)

\* a page with a title, a body and three related links of different URLs
\* has been streamed to the footer
C11_Witness ==
    /\ spc = "done" /\ out # <<>> /\ out[1].kind # "error"
    /\ Len(story.Link.Title) >= 2
    /\ Len(Fields(story.Content)) >= 1
    /\ Len(story.Links) >= 3
    /\ story.Links[1].Url # story.Links[2].Url
    /\ story.Links[2].Url # story.Links[3].Url

-----------------------------------------------------------------------------
(* streamPage and a client that goes away *)

\* the positions in out of the writes that failed: those made after the
\* client went away
FailedWrites ==
    {j \in 1..Len(out) : ~sink.open /\ j > sink.at /\ out[j].kind = "write"}

\* C21: when a write to the response fails, streamPage stops: after the first
\* failed write there is no other write, of the same region or of a later
\* one, and no sleep.
C21_StopsOnWriteFailure ==
    \A j \in FailedWrites :
        \A k \in (j + 1)..Len(out) : out[k].kind \notin {"write", "sleep"}

-----------------------------------------------------------------------------
(* updateMarkovModelHandler: two updates of one model *)

\* two update requests of the same model that were both answered with 200,
\* `second' being the one whose UPDATE followed the UPDATE of `first'
UpdatedInTurn(first, second) ==
    /\ first # second
    /\ procs[first].op = "update" /\ procs[second].op = "update"
    /\ procs[first].pc = "done" /\ procs[second].pc = "done"
    /\ procs[first].status = "200" /\ procs[second].status = "200"
    /\ procs[first].id = procs[second].id
    /\ procs[second].write = procs[first].write + 1

\* C29: when two update requests of the same model id both succeed, the model
\* stored afterwards holds the count increments of both texts: it is the model
\* the first request stored with the text of the second added to it.
C29_NoLostUpdate ==
    \A first, second \in DOMAIN procs :
        UpdatedInTurn(first, second) =>
            \A i \in RowsOf(procs[second].id) :
                rows[i].data = SerializeModel(AddTextToModel(
                                   LoadModel(procs[first].m.data), procs[second].text))

\* two update requests of the same model have both been answered with 200
C29_BothSucceeded ==
    \E first, second \in DOMAIN procs :
        UpdatedInTurn(first, second) /\ RowsOf(procs[second].id) # {}

-----------------------------------------------------------------------------
(* The links of a page and the {id} of the page route *)

\* mux.Vars(r)["id"] of the route /post/{id} for a request of the url
PostId(url) == SubSeq(url, 7, Len(url))

\* generatePageStreamHandler: the seed read from a request of the link's Url
ParsedSeed(link) == ParseInt(BeforeHyphen(PostId(link.Url)))

\* the link of a page and its related links
PageLinksOf(page) == {page.Link} \cup Range(page.Links)

\* the links of the pages returned so far
LinksProduced ==
    UNION ({PageLinksOf(call.page) : call \in calls}
           \cup UNION {{PageLinksOf(home.posts[i]) : i \in 1..home.count} : home \in homes})

\* C30: for every link of a page that GeneratePage returned, the page's own
\* and each related one, the id parsing of generatePageStreamHandler applied
\* to the part of Url after "/post/" succeeds and gives the link's Seed,
\* whatever the seed and also when the slug is empty.
C30_UrlRoundTrip ==
    \A link \in LinksProduced : ParsedSeed(link).ok /\ ParsedSeed(link).val = link.Seed

\* C30 for the seeds that are not negative
C30_UrlRoundTripNonNegative ==
    \A link \in LinksProduced :
        link.Seed >= 0 => ParsedSeed(link).ok /\ ParsedSeed(link).val = link.Seed

\* a page of a negative seed has been returned, and a link with an empty slug
C30_Witness ==
    /\ \E link \in LinksProduced : link.Seed < 0
    /\ \E link \in LinksProduced : link.Url = PostUrl(link.Seed, <<>>)

====
